---------------------------- MODULE Spec2Model ----------------------------
(***************************************************************************)
(* Model of the Insight-Engine retrieval pipeline:                         *)
(*   backend/ingest.py  split_into_chunks, find_documents, main            *)
(*   backend/search.py  get_collection, search                             *)
(*                                                                         *)
(* A Python str is a sequence of one-character strings; s[a:b] is          *)
(* Slice(s, a, b).  Two specifications are given:                          *)
(*   SplitSpec  one call of split_into_chunks with arbitrary arguments,    *)
(*              executed one loop iteration per step;                      *)
(*   Spec       runs of ingest.main() and calls of search.search()         *)
(*              against the persisted Chroma collection.                   *)
(***************************************************************************)
EXTENDS Integers, Sequences, FiniteSets

VARIABLES
    \* ---- one call of split_into_chunks (ingest.py:83-116) ----
    spc,        \* position: "call", "loop", "done"
    input,      \* the argument `text` as passed by the caller
    max_chars,  \* the argument max_chars
    overlap,    \* the argument overlap
    text,       \* the local `text` after text.strip()
    n,          \* the local n = len(text)
    start,      \* the local start
    chunks,     \* the local list `chunks`
    windows,    \* history: the <<start, end>> of every chunk appended
    iter,       \* history: parity of the number of loop iterations executed
    \* ---- ingest.main() and search.search() ----
    pc,         \* position of main(): "idle", "walk", "delete", "create", "build", "add"
    run,        \* number of main() runs started so far
    todo,       \* names under data/ that os.walk has not come to yet
    docs,       \* the local list `docs` of (path, text) pairs
    batch,      \* all_ids / all_chunks / all_metadata, as one list of records
    collection, \* the persisted collection "notes" in db/
    outcome,    \* how the last run of main() ended
    storeOps,   \* history: the store calls the current/last run made that succeeded
    indexBefore,\* history: the collection as it was when the current/last run began
    ret         \* what the last call of search() gave its caller

splitVars == <<spc, input, max_chars, overlap, text, n, start, chunks, windows, iter>>
mainVars == <<pc, run, todo, docs, batch, collection, outcome, storeOps, indexBefore>>
vars == <<splitVars, mainVars, ret>>

---------------------------------------------------------------------------
(* Bounds of the model *)

\* longest argument text of a split_into_chunks call
MaxLen == 6
\* largest max_chars argument tried
MaxMaxChars == 4
\* largest overlap argument tried (reaches overlap >= max_chars)
MaxOverlap == 4
\* The defaults max_chars=800, overlap=200 that main() splits with, scaled by
\* 1/200 so that a text of a few characters spans several windows.
DefaultMaxChars == 4
DefaultOverlap == 1
\* length of the long document text (longer than one window)
LongLen == 6
\* runs of main() in one behaviour
MaxRuns == 3
\* largest n_results passed to search()
MaxResults == 2

\* entries of `chunks` the model keeps (an append to a list that long is
\* still an iteration, but leaves the kept entries as they are); under
\* max_chars > overlap a text of MaxLen characters never has more than
\* MaxLen chunks
MaxChunks == MaxLen + 1

Chars == {"a", "b", " "}
Whitespace == {" "}

Min(a, b) == IF a <= b THEN a ELSE b
Max(a, b) == IF a >= b THEN a ELSE b

RECURSIVE SeqsUpTo(_, _)
SeqsUpTo(S, k) ==
    IF k = 0 THEN {<<>>}
    ELSE LET shorter == SeqsUpTo(S, k - 1)
         IN  shorter \cup {Append(s, c) : s \in shorter, c \in S}

---------------------------------------------------------------------------
(* Python string operations *)

\* s[a:b] for 0 <= a <= b <= len(s)
Slice(s, a, b) == SubSeq(s, a + 1, b)

RECURSIVE lstrip(_)
lstrip(s) ==
    IF s # <<>> /\ Head(s) \in Whitespace THEN lstrip(Tail(s)) ELSE s

RECURSIVE rstrip(_)
rstrip(s) ==
    IF s # <<>> /\ s[Len(s)] \in Whitespace
    THEN rstrip(SubSeq(s, 1, Len(s) - 1))
    ELSE s

\* a strip that forgets the trailing side
strip_leading_only(s) == lstrip(s)

\* a strip that does nothing
strip_nothing(s) == s

\* str.strip(), ingest.py:95
strip(s) == rstrip(lstrip(s))

---------------------------------------------------------------------------
(* split_into_chunks, ingest.py:83-116 *)

\* ingest.py:105   end = min(start + max_chars, n)
WindowEnd(s, mc, len) == Min(s + mc, len)

\* a cursor that steps one character too far
NextStartSkipsOne(e, ov) == Max(0, e - ov + 1)

\* a cursor that forgets the overlap
NextStartNoOverlap(e, ov) == e

\* ingest.py:114   start = max(0, end - overlap)
NextStart(e, ov) == Max(0, e - ov)

\* ingest.py:95-102: strip, the empty-text return, the loop's initial state
SplitCall ==
    /\ spc = "call"
    /\ text' = strip(input)
    /\ n' = Len(text')
    /\ start' = 0
    /\ chunks' = <<>>
    /\ windows' = <<>>
    /\ iter' = 0
    /\ spc' = IF text' = <<>> THEN "done" ELSE "loop"
    /\ UNCHANGED <<input, max_chars, overlap, mainVars, ret>>

\* ingest.py:104-116: one iteration of the while loop (and the return that
\* follows the break or the failed loop test)
SplitIterate ==
    /\ spc = "loop"
    /\ iter' = 1 - iter
    /\ IF start < n
       THEN LET end == WindowEnd(start, max_chars, n)
                chunk == Slice(text, start, end)
            IN  /\ chunks' = IF Len(chunks) < MaxChunks
                             THEN Append(chunks, chunk) ELSE chunks
                /\ windows' = IF Len(windows) < MaxChunks
                              THEN Append(windows, <<start, end>>) ELSE windows
                /\ IF end = n
                   THEN spc' = "done" /\ start' = start
                   ELSE spc' = "loop" /\ start' = NextStart(end, overlap)
       ELSE spc' = "done" /\ UNCHANGED <<start, chunks, windows>>
    /\ UNCHANGED <<input, max_chars, overlap, text, n, mainVars, ret>>

RECURSIVE SplitLoop(_, _, _, _, _)
\* ingest.py:104-116 as a function of the cursor: the chunks appended from
\* `start` on (defined when max_chars > overlap, as with main()'s defaults)
SplitLoop(t, len, s, mc, ov) ==
    IF s < len
    THEN LET end == WindowEnd(s, mc, len)
             chunk == Slice(t, s, end)
         IN  IF end = len
             THEN <<chunk>>
             ELSE <<chunk>> \o SplitLoop(t, len, NextStart(end, ov), mc, ov)
    ELSE <<>>

\* ingest.py:83-116 as a function of its arguments
split_into_chunks(t, mc, ov) ==
    LET stripped == strip(t)
    IN  IF stripped = <<>> THEN <<>>
        ELSE SplitLoop(stripped, Len(stripped), 0, mc, ov)

---------------------------------------------------------------------------
(* The data/ folder *)

\* file names under data/ (one with an upper-case suffix, one unsupported)
Paths == {"a.txt", "b.PDF", "c.png"}

\* Path(filename).suffix
Suffix(p) ==
    CASE p = "a.txt" -> ".txt"
      [] p = "b.PDF" -> ".PDF"
      [] p = "c.png" -> ".png"

\* str.lower() on the suffixes above
Lower(sfx) == IF sfx = ".PDF" THEN ".pdf" ELSE sfx

\* ingest.py:58-62, the keys of LOADERS
LOADERS == {".txt", ".md", ".pdf"}

ShortText == <<"a", "b">>
LongText == <<" ">> \o [i \in 1..LongLen |-> IF i % 2 = 1 THEN "a" ELSE "b"]
DocTexts == {<<" ">>, ShortText, LongText}

\* a file is absent, readable with some text, or makes its loader raise
Absent == [kind |-> "absent", text |-> <<>>]
FileStates ==
    {Absent, [kind |-> "bad", text |-> <<>>]}
        \cup {[kind |-> "ok", text |-> t] : t \in DocTexts}

\* what os.walk and the loader may find under a name
Found(p) ==
    IF Lower(Suffix(p)) \in LOADERS
    THEN FileStates
    ELSE {Absent, [kind |-> "ok", text |-> ShortText]}

---------------------------------------------------------------------------
(* The Chroma store: the collection "notes" persisted under db/ *)

NoCollection == [exists |-> FALSE, records |-> <<>>]
EmptyCollection == [exists |-> TRUE, records |-> <<>>]

\* a create that reuses an existing collection (get_or_create)
create_or_reuse(coll) ==
    [ok |-> TRUE, coll |-> IF coll.exists THEN coll ELSE EmptyCollection]

\* client.create_collection(name=...), ingest.py:149-152: raises when a
\* collection of that name exists
create_collection(coll) ==
    IF coll.exists
    THEN [ok |-> FALSE, coll |-> coll]
    ELSE [ok |-> TRUE, coll |-> EmptyCollection]

\* a lookup that creates the collection when it is missing
get_or_create_collection(coll) ==
    [ok |-> TRUE, coll |-> IF coll.exists THEN coll ELSE EmptyCollection]

\* client.get_collection(name=...), search.py:34-38: raises when no
\* collection of that name exists
get_collection(coll) ==
    IF coll.exists
    THEN [ok |-> TRUE, coll |-> coll]
    ELSE [ok |-> FALSE, coll |-> coll]

\* the orders in which the store may rank `len` of its `cnt` records
Rankings(cnt, len) ==
    {r \in [1..len -> 1..cnt] : \A i, j \in 1..len : i # j => r[i] # r[j]}

\* collection.query(query_texts=[query], n_results=k), search.py:54-57:
\* the k nearest records (all of them when there are fewer), best first,
\* as index-aligned lists; the "distances" key may be missing
StoreQuery(records, k) ==
    LET len == Min(k, Len(records))
    IN  {[documents |-> [i \in 1..len |-> records[r[i]].document],
          metadatas |-> [i \in 1..len |-> records[r[i]].metadata],
          has_distances |-> h,
          distances |-> IF h THEN [i \in 1..len |-> i] ELSE <<>>] :
            r \in Rankings(Len(records), len), h \in BOOLEAN}

---------------------------------------------------------------------------
(* ingest.main(), ingest.py:119-185 *)

\* a batch whose chunk_index keeps counting across documents
DocRecordsRunningIndex(path, cs, r, base) ==
    [i \in 1..Len(cs) |->
        [id |-> <<r, base + i>>,
         document |-> cs[i],
         metadata |-> [source |-> path, chunk_index |-> base + i - 1]]]

\* ingest.py:161-172: the ids, texts and metadata of one document's chunks;
\* uuid4() is a fresh id, here <<run, position in the batch>>
DocRecords(path, cs, r, base) ==
    [i \in 1..Len(cs) |->
        [id |-> <<r, base + i>>,
         document |-> cs[i],
         metadata |-> [source |-> path, chunk_index |-> i - 1]]]

RECURSIVE BuildBatchFrom(_, _, _)
\* ingest.py:154-172: the loop over docs, appending to the three lists
BuildBatchFrom(ds, r, acc) ==
    IF ds = <<>> THEN acc
    ELSE LET d == Head(ds)
             cs == split_into_chunks(d.text, DefaultMaxChars, DefaultOverlap)
         IN  BuildBatchFrom(Tail(ds), r, acc \o DocRecords(d.path, cs, r, Len(acc)))

\* ingest.py:154-172 from the three empty lists
BuildBatch(ds, r) == BuildBatchFrom(ds, r, <<>>)

NoReturn == [kind |-> "none", n_results |-> 0, results |-> <<>>, output |-> <<>>]

\* ingest.py:121-126: the folder test, then discovery begins
MainStart ==
    /\ pc = "idle"
    /\ run < MaxRuns
    /\ run' = run + 1
    /\ \E exists \in BOOLEAN :
          IF ~exists
          THEN pc' = "idle" /\ outcome' = "no_dir" /\ todo' = {}
          ELSE pc' = "walk" /\ outcome' = "running" /\ todo' = Paths
    /\ docs' = <<>>
    /\ batch' = <<>>
    /\ storeOps' = <<>>
    /\ indexBefore' = collection
    /\ ret' = NoReturn
    /\ UNCHANGED <<collection, splitVars>>

\* ingest.py:73-80: os.walk comes to the next name; a file with a supported
\* suffix is loaded, and a loader that raises ends the run
WalkFile ==
    /\ pc = "walk"
    /\ \E p \in todo : \E f \in Found(p) :
          /\ todo' = todo \ {p}
          /\ IF f.kind # "absent" /\ Lower(Suffix(p)) \in LOADERS
             THEN IF f.kind = "bad"
                  THEN /\ pc' = "idle"
                       /\ outcome' = "loader_error"
                       /\ docs' = docs
                  ELSE /\ docs' = Append(docs, [path |-> p, text |-> f.text])
                       /\ UNCHANGED <<pc, outcome>>
             ELSE UNCHANGED <<pc, outcome, docs>>
    /\ UNCHANGED <<run, batch, collection, storeOps, indexBefore, ret, splitVars>>

\* a main() that drops the old collection before it looks at docs
WalkDoneDeletesFirst ==
    /\ pc = "walk"
    /\ todo = {}
    /\ collection' = NoCollection
    /\ IF docs = <<>>
       THEN pc' = "idle" /\ outcome' = "no_files"
       ELSE pc' = "delete" /\ UNCHANGED outcome
    /\ UNCHANGED <<run, todo, docs, batch, storeOps, indexBefore, ret, splitVars>>

\* ingest.py:126-140: the walk is exhausted; the empty-docs return, else
\* the client and the embedding function are set up
WalkDone ==
    /\ pc = "walk"
    /\ todo = {}
    /\ IF docs = <<>>
       THEN pc' = "idle" /\ outcome' = "no_files"
       ELSE pc' = "delete" /\ UNCHANGED outcome
    /\ UNCHANGED <<run, todo, docs, batch, collection, storeOps, indexBefore, ret, splitVars>>

\* ingest.py:142-147: delete_collection; any exception (no such collection,
\* a store failure) is swallowed
DeleteCollection ==
    /\ pc = "delete"
    /\ pc' = "create"
    /\ \/ /\ collection' = NoCollection
          /\ storeOps' = IF collection.exists THEN Append(storeOps, "delete") ELSE storeOps
       \/ /\ collection.exists
          /\ UNCHANGED <<collection, storeOps>>
    /\ UNCHANGED <<run, todo, docs, batch, outcome, indexBefore, ret, splitVars>>

\* ingest.py:149-152: create_collection; it raises (and the run dies) when
\* the old collection is still there
CreateCollection ==
    /\ pc = "create"
    /\ LET made == create_collection(collection)
       IN  IF made.ok
           THEN /\ collection' = made.coll
                /\ storeOps' = Append(storeOps, "create")
                /\ pc' = "build"
                /\ UNCHANGED outcome
           ELSE /\ pc' = "idle"
                /\ outcome' = "create_error"
                /\ UNCHANGED <<collection, storeOps>>
    /\ UNCHANGED <<run, todo, docs, batch, indexBefore, ret, splitVars>>

\* ingest.py:154-174: every document is split and its chunks collected
BuildLists ==
    /\ pc = "build"
    /\ batch' = BuildBatch(docs, run)
    /\ pc' = "add"
    /\ UNCHANGED <<run, todo, docs, collection, outcome, storeOps,
                   indexBefore, ret, splitVars>>

\* collection.add(ids=, documents=, metadatas=): the records join the
\* collection's records
add(coll, b) == [coll EXCEPT !.records = @ \o b]

\* ingest.py:179-185: the one add of the whole batch, then "Done".  Chroma
\* may refuse an empty batch (no chunk in any document) with an exception.
AddBatch ==
    /\ pc = "add"
    /\ pc' = "idle"
    /\ \/ /\ collection' = add(collection, batch)
          /\ storeOps' = Append(storeOps, "add")
          /\ outcome' = "done"
       \/ /\ batch = <<>>
          /\ outcome' = "add_error"
          /\ UNCHANGED <<collection, storeOps>>
    /\ UNCHANGED <<run, todo, docs, batch, indexBefore, ret, splitVars>>

---------------------------------------------------------------------------
(* search.search(), search.py:41-74 *)

\* Python's None and a present value
None == <<>>
Some(x) == <<x>>

\* dict.get(key, default) on a metadata dict
Get(meta, key, default) == IF key \in DOMAIN meta THEN meta[key] ELSE default

\* hits built in the reverse of the store's order
NormalizeReversed(res) ==
    LET documents == res.documents
        metadatas == res.metadatas
        len == Len(documents)
    IN  [i \in 1..len |->
            [text |-> documents[len + 1 - i],
             source |-> Get(metadatas[len + 1 - i], "source", "unknown"),
             chunk_index |-> Get(metadatas[len + 1 - i], "chunk_index", -1),
             distance |-> IF res.has_distances THEN Some(res.distances[i]) ELSE None]]

\* search.py:59-74: the three lists of the first (only) query, zipped into
\* one list of hits
Normalize(res) ==
    LET documents == res.documents
        metadatas == res.metadatas
        distances == IF res.has_distances
                     THEN [i \in 1..Len(res.distances) |-> Some(res.distances[i])]
                     ELSE [i \in 1..Len(documents) |-> None]
        len == Min(Len(documents), Min(Len(metadatas), Len(distances)))
    IN  [i \in 1..len |->
            [text |-> documents[i],
             source |-> Get(metadatas[i], "source", "unknown"),
             chunk_index |-> Get(metadatas[i], "chunk_index", -1),
             distance |-> distances[i]]]

\* search.py:41-74, one call with n_results >= 1, made while no ingestion
\* is running; an exception of get_collection reaches the caller.  A call
\* changes nothing but its own result, so the one call the model makes
\* between two runs of main() stands for any number of them.
Search ==
    /\ pc = "idle"
    /\ ret = NoReturn
    /\ \E k \in 1..MaxResults :
          LET got == get_collection(collection)
          IN  IF ~got.ok
              THEN ret' = [kind |-> "raise", n_results |-> k,
                           results |-> <<>>, output |-> <<>>]
              ELSE \E res \in StoreQuery(got.coll.records, k) :
                      ret' = [kind |-> "ok", n_results |-> k,
                              results |-> <<res>>, output |-> Normalize(res)]
    /\ UNCHANGED <<mainVars, splitVars>>

---------------------------------------------------------------------------
(* Specifications *)

SplitIdle ==
    /\ spc = "done" /\ input = <<>> /\ max_chars = 1 /\ overlap = 0
    /\ text = <<>> /\ n = 0 /\ start = 0 /\ chunks = <<>> /\ windows = <<>>
    /\ iter = 0

MainIdle ==
    /\ pc = "idle" /\ run = 0 /\ todo = {}
    /\ docs = <<>> /\ batch = <<>> /\ collection = NoCollection
    /\ outcome = "none" /\ storeOps = <<>> /\ indexBefore = NoCollection
    /\ ret = NoReturn

\* nothing has run yet: no db/ folder, no collection
Init == SplitIdle /\ MainIdle

Next ==
    \/ MainStart
    \/ WalkFile
    \/ WalkDone
    \/ DeleteCollection
    \/ CreateCollection
    \/ BuildLists
    \/ AddBatch
    \/ Search

Spec == Init /\ [][Next]_vars

\* a caller is about to call split_into_chunks(input, max_chars, overlap)
SplitInit ==
    /\ MainIdle
    /\ spc = "call"
    /\ input \in SeqsUpTo(Chars, MaxLen)
    /\ max_chars \in 1..MaxMaxChars
    /\ overlap \in 0..MaxOverlap
    /\ text = <<>> /\ n = 0 /\ start = 0 /\ chunks = <<>> /\ windows = <<>>
    /\ iter = 0

SplitNext == SplitCall \/ SplitIterate

\* the interpreter keeps executing the call while it has a next statement
SplitSpec == SplitInit /\ [][SplitNext]_vars /\ WF_vars(SplitNext)

---------------------------------------------------------------------------
(* What the claims speak of *)

\* positions of the characters of s that are not whitespace
NonSpace(s) == {i \in 1..Len(s) : s[i] \notin Whitespace}

\* s without its leading and trailing whitespace: from its first to its
\* last non-whitespace character
Trimmed(s) ==
    IF NonSpace(s) = {} THEN <<>>
    ELSE LET lo == CHOOSE i \in NonSpace(s) : \A j \in NonSpace(s) : i <= j
             hi == CHOOSE i \in NonSpace(s) : \A j \in NonSpace(s) : i >= j
         IN  SubSeq(s, lo, hi)

\* the call has returned
Returned == spc = "done"

\* max_chars > overlap >= 0
ValidParams == max_chars > overlap /\ overlap >= 0

\* C1: for a text that is non-empty after trimming and max_chars > overlap
\* >= 0, the returned chunks are windows text[s_i:e_i] of the trimmed text
\* with s_0 = 0, no gap between consecutive windows (s_{i+1} <= e_i), the
\* last window ending at len(trimmed text), and no chunk longer than
\* max_chars.
C1_WindowsCoverText ==
    (Returned /\ ValidParams /\ Trimmed(input) # <<>>) =>
        LET t == Trimmed(input)
            k == Len(chunks)
        IN  /\ k >= 1
            /\ Len(windows) = k
            /\ windows[1][1] = 0
            /\ \A i \in 1..k :
                  /\ 0 <= windows[i][1]
                  /\ windows[i][1] <= windows[i][2]
                  /\ windows[i][2] <= Len(t)
                  /\ chunks[i] = Slice(t, windows[i][1], windows[i][2])
                  /\ Len(chunks[i]) <= max_chars
            /\ \A i \in 1..(k - 1) : windows[i + 1][1] <= windows[i][2]
            /\ windows[k][2] = Len(t)

\* a padded text was split into three or more overlapping windows
C1_Witness ==
    /\ Returned /\ ValidParams
    /\ overlap >= 1
    /\ Len(chunks) >= 3
    /\ Len(Trimmed(input)) < Len(input)

\* C2: split_into_chunks terminates for every text and every max_chars >= 1,
\* overlap >= 0, overlap >= max_chars included: the call eventually returns.
C2_Terminates == <>Returned

\* C3 as stated: for every text with len(text) <= max_chars the result is
\* exactly one chunk, the trimmed input.
C3_OneChunkAlways ==
    (Returned /\ Len(input) <= max_chars) => chunks = <<Trimmed(input)>>

\* C3, amended: for every text with len(text) <= max_chars that is not empty
\* after trimming, the result is exactly one chunk, the trimmed input.
C3_OneChunkIfNotBlank ==
    (Returned /\ Len(input) <= max_chars /\ Trimmed(input) # <<>>) =>
        chunks = <<Trimmed(input)>>

\* a short text with whitespace around it came back as its trimmed self
C3_Witness ==
    /\ Returned
    /\ Len(input) <= max_chars
    /\ Trimmed(input) # <<>>
    /\ Len(Trimmed(input)) < Len(input)
    /\ Len(chunks) = 1

\* C4: for max_chars > overlap >= 0, chunk i+1 starts exactly `overlap`
\* characters before the end of chunk i, and the last `overlap` characters
\* of chunk i are the first `overlap` characters of chunk i+1.
C4_ExactOverlap ==
    (Returned /\ ValidParams) =>
        /\ Len(windows) = Len(chunks)
        /\ \A i \in 1..(Len(chunks) - 1) :
              /\ windows[i + 1][1] = windows[i][2] - overlap
              /\ Len(chunks[i]) >= overlap
              /\ Len(chunks[i + 1]) >= overlap
              /\ SubSeq(chunks[i], Len(chunks[i]) - overlap + 1, Len(chunks[i]))
                    = SubSeq(chunks[i + 1], 1, overlap)

\* several overlapping chunks, the last one cut short by the end of the text
C4_Witness ==
    /\ Returned /\ ValidParams
    /\ overlap >= 1
    /\ Len(chunks) >= 3
    /\ Len(chunks[Len(chunks)]) < max_chars

\* C5: an empty or whitespace-only text gives zero chunks, and any other
\* text with max_chars > overlap >= 0 gives only chunks of length >= 1.
C5_NoEmptyChunk ==
    Returned =>
        /\ Trimmed(input) = <<>> => chunks = <<>>
        /\ (Trimmed(input) # <<>> /\ ValidParams) =>
              \A i \in 1..Len(chunks) : Len(chunks[i]) >= 1

\* a whitespace-only text gave no chunk
C5_Witness ==
    /\ Returned
    /\ input # <<>>
    /\ Trimmed(input) = <<>>
    /\ chunks = <<>>

\* the last run of main() ran to its end ("Done")
RunCompleted == pc = "idle" /\ outcome = "done"

RECURSIVE ChunksOfDocs(_)
\* the chunks of a list of documents, document by document in split order,
\* each with the path of its document
ChunksOfDocs(ds) ==
    IF ds = <<>> THEN <<>>
    ELSE LET cs == split_into_chunks(Head(ds).text, DefaultMaxChars, DefaultOverlap)
         IN  [i \in 1..Len(cs) |-> [path |-> Head(ds).path, text |-> cs[i]]]
                \o ChunksOfDocs(Tail(ds))

\* C6: once a run that found at least one supported file completes, the
\* index holds exactly the chunks of that run's documents and none written
\* by an earlier run; the run deleted the old collection (if there was one)
\* before it created the new one, and its single add came last.
C6_FullRebuild ==
    RunCompleted =>
        LET want == ChunksOfDocs(docs)
            have == collection.records
        IN  /\ docs # <<>>
            /\ collection.exists
            /\ Len(have) = Len(want)
            /\ \A i \in 1..Len(have) :
                  /\ have[i].document = want[i].text
                  /\ have[i].metadata.source = want[i].path
                  /\ have[i].id[1] = run
            /\ \A i \in 1..Len(have) : \A j \in 1..Len(indexBefore.records) :
                  have[i].id # indexBefore.records[j].id
            /\ storeOps = IF indexBefore.exists
                          THEN <<"delete", "create", "add">>
                          ELSE <<"create", "add">>

\* a second or later run replaced a non-empty index by a non-empty one
C6_Witness ==
    /\ RunCompleted
    /\ run >= 2
    /\ indexBefore.records # <<>>
    /\ collection.records # <<>>
    /\ storeOps = <<"delete", "create", "add">>

\* C7: a run touches the persisted index only after discovery has finished
\* with at least one supported file; a run that ends on a missing folder, on
\* no supported file or on a loader's exception leaves the index as it was
\* when the run began (and creates none).
C7_IndexUntouchedWithoutDocs ==
    /\ pc = "walk" => collection = indexBefore
    /\ (pc = "idle" /\ outcome \in {"no_dir", "no_files", "loader_error"})
          => collection = indexBefore
    /\ collection # indexBefore => (docs # <<>> /\ todo = {})

\* a run died in a loader after another file was loaded, with an index there
C7_Witness ==
    /\ pc = "idle"
    /\ outcome = "loader_error"
    /\ docs # <<>>
    /\ collection.records # <<>>
    /\ collection = indexBefore

\* C8: while no collection is persisted, search() fails with the store's
\* collection-not-found error; it never returns a list.
C8_SearchFailsWithoutIndex ==
    (ret.kind # "none" /\ ~collection.exists) => ret.kind = "raise"

\* a search after an ingestion that reported no files
C8_Witness ==
    /\ ret.kind = "raise"
    /\ run >= 1
    /\ outcome = "no_files"
    /\ ~collection.exists

\* C9: search() returns one hit per document the store returned, in the
\* store's order and index-aligned, min(n_results, chunks in the index) of
\* them, never padded.
C9_HitsFollowStore ==
    ret.kind = "ok" =>
        LET res == ret.results[1]
            out == ret.output
        IN  /\ Len(out) = Len(res.documents)
            /\ Len(out) = Min(ret.n_results, Len(collection.records))
            /\ \A i \in 1..Len(out) :
                  /\ out[i].text = res.documents[i]
                  /\ out[i].source = res.metadatas[i].source
                  /\ out[i].chunk_index = res.metadatas[i].chunk_index
                  /\ out[i].distance =
                        IF res.has_distances THEN Some(res.distances[i]) ELSE None

\* more hits were asked for than the index has chunks
C9_Witness ==
    /\ ret.kind = "ok"
    /\ Len(collection.records) >= 1
    /\ ret.n_results > Len(collection.records)
    /\ Len(ret.output) = Len(collection.records)

\* the records of one source document, in the order they were added
RecordsOf(path) ==
    LET FromPath(rec) == rec.metadata.source = path
    IN  SelectSeq(collection.records, FromPath)

\* C10: after an ingestion run, the chunks of every source document carry
\* the chunk_index values 0, 1, ..., k-1 (k the number of chunks the split
\* gave), chunk_index i on the i-th chunk in split order.
C10_ChunkIndexContiguous ==
    RunCompleted =>
        /\ \A r \in 1..Len(collection.records) :
              \E d \in 1..Len(docs) :
                  docs[d].path = collection.records[r].metadata.source
        /\ \A d \in 1..Len(docs) :
              LET cs == split_into_chunks(docs[d].text, DefaultMaxChars, DefaultOverlap)
                  recs == RecordsOf(docs[d].path)
              IN  /\ Len(recs) = Len(cs)
                  /\ \A i \in 1..Len(recs) :
                        /\ recs[i].metadata.chunk_index = i - 1
                        /\ recs[i].document = cs[i]

\* two documents were ingested, the second one in several chunks
C10_Witness ==
    /\ RunCompleted
    /\ Len(docs) = 2
    /\ Len(RecordsOf(docs[1].path)) >= 1
    /\ Len(RecordsOf(docs[2].path)) >= 2

=============================================================================
